---- MODULE Spec2Model ----
(***************************************************************************)
(* Multi-select table with bulk actions.                                   *)
(*                                                                         *)
(* Three specifications share the variables below.                         *)
(*                                                                         *)
(*   Spec     one page (UsersComponent or OrdersComponent) with its        *)
(*            DataTableComponent, the MultiSelectActionsComponent          *)
(*            instances the table creates and destroys through             *)
(*            *ngIf="multiSelect", the DataService signals and the         *)
(*            pending setTimeout callbacks.  One step is one browser task  *)
(*            (a click handler or a timer callback) together with the      *)
(*            change detection Angular runs right after it.                *)
(*                                                                         *)
(*   FairSpec the same page, without the history variables (last and the   *)
(*            ids a timer was started on), under the assumption that the   *)
(*            browser runs every pending timer callback.                   *)
(*                                                                         *)
(*   SelSpec  a CustomSelectionModel on its own, driven through its        *)
(*            public methods with arbitrary entity objects, next to a data *)
(*            batch for the table's isAllSelected and isIndeterminate.     *)
(*                                                                         *)
(* An entity object is a record; the field ver stands for the identity of  *)
(* the JavaScript object: every {...user, ...} spread makes a new object,  *)
(* so two records that differ only in ver are two objects with equal       *)
(* contents.  Date values are abstracted to the set of timestamp fields    *)
(* that are populated (stamps).                                            *)
(***************************************************************************)
EXTENDS Integers, Sequences, FiniteSets, TLC

VARIABLES
    ctx,                     \* which page is shown: its actionContext
    users,                   \* DataService._users
    orders,                  \* DataService._orders
    usersLoaded,             \* DataService.usersLoaded
    ordersLoaded,            \* DataService.ordersLoaded
    multiSelect,             \* DataTableComponent.multiSelect
    multiple,                \* SelectionModel._multiple of the selection
    selection,               \* SelectionModel._selection (the Set of objects)
    currentDisplayedColumns, \* DataTableComponent.currentDisplayedColumns
    comps,                   \* the MultiSelectActionsComponent instances
    timers,                  \* pending setTimeout callbacks, in creation order
    notes,                   \* the kinds of snack bar opened so far, per invocation
    nInv,                    \* number of action invocations so far
    last,                    \* the task that produced this state, with its snack bars
    prev,                    \* SelSpec: the call before the last one
    history                  \* whether the tasks and the timers keep their history

vars == <<ctx, users, orders, usersLoaded, ordersLoaded, multiSelect, multiple,
          selection, currentDisplayedColumns, comps, timers, notes, nInv,
          last, prev, history>>

(***************************************************************************)
(* Bounds of the model.                                                    *)
(***************************************************************************)
NumRows == 2   \* rows of the loaded batch that are modelled
MaxInv == 2    \* action invocations on a page

(***************************************************************************)
(* Entities and the data the service loads.                                *)
(***************************************************************************)
Contexts == {"users", "orders"}

UserIds == <<"u1", "u2", "u3", "u4", "u5">>
UserStatus == <<"active", "inactive", "pending", "active", "active">>
OrderIds == <<"o1", "o2", "o3", "o4">>
OrderStatus == <<"active", "pending", "inactive", "active">>

Entity(id, status) == [id |-> id, status |-> status, stamps |-> {}, ver |-> 0]

InitialUsers == [k \in 1..NumRows |-> Entity(UserIds[k], UserStatus[k])]
InitialOrders == [k \in 1..NumRows |-> Entity(OrderIds[k], OrderStatus[k])]

\* A WritableSignal<T[] | null>: null, or an array of entities.
NullSignal == [isNull |-> TRUE, value |-> <<>>]
SignalOf(rows) == [isNull |-> FALSE, value |-> rows]
OrEmpty(sig) == IF sig.isNull THEN <<>> ELSE sig.value

Range(f) == {f[k] : k \in DOMAIN f}
IdsOf(items) == {e.id : e \in items}

(***************************************************************************)
(* CustomSelectionModel.  The class overrides isSelected only; select,     *)
(* deselect, toggle and clear are the ones of the CDK SelectionModel it    *)
(* extends, which call this.isSelected and then add to / delete from the   *)
(* underlying Set, a Set of object references.                             *)
(***************************************************************************)
isSelectedByReference(sel, item) == item \in sel

\* return this.selected.some(selectedItem => selectedItem.id === item.id)
isSelected(sel, item) == \E selectedItem \in sel : selectedItem.id = item.id

unmarkSelectedNever(sel, value) == sel

\* _unmarkSelected: if (this.isSelected(value)) this._selection.delete(value)
unmarkSelected(sel, value) == IF isSelected(sel, value) THEN sel \ {value} ELSE sel

RECURSIVE unmarkEach(_, _)
unmarkEach(sel, todo) ==
    IF todo = {} THEN sel
    ELSE LET value == CHOOSE v \in todo : TRUE
         IN unmarkEach(unmarkSelected(sel, value), todo \ {value})

unmarkAllButOne(sel) ==
    IF sel = {} THEN sel ELSE {CHOOSE v \in sel : TRUE}

\* _unmarkAll: this._selection.forEach(value => this._unmarkSelected(value))
unmarkAll(sel) == IF sel = {} THEN sel ELSE unmarkEach(sel, sel)

markSelectedKeepingOthers(sel, mult, value) ==
    IF ~isSelected(sel, value) THEN sel \cup {value} ELSE sel

markSelectedUnchecked(sel, mult, value) ==
    (IF ~mult THEN unmarkAll(sel) ELSE sel) \cup {value}

\* _markSelected
markSelected(sel, mult, value) ==
    IF ~isSelected(sel, value)
    THEN LET s1 == IF ~mult THEN unmarkAll(sel) ELSE sel
         IN IF ~isSelected(s1, value) THEN s1 \cup {value} ELSE s1
    ELSE sel

select(sel, mult, value) == markSelected(sel, mult, value)

deselect(sel, value) == unmarkSelected(sel, value)

toggleSelectOnly(sel, mult, value) == select(sel, mult, value)

\* return this.isSelected(value) ? this.deselect(value) : this.select(value)
toggle(sel, mult, value) ==
    IF isSelected(sel, value) THEN deselect(sel, value) ELSE select(sel, mult, value)

clearKeeping(sel) == sel

\* clear(): this._unmarkAll()
clear(sel) == unmarkAll(sel)

selectFirstOnly(sel, mult, rows, k) ==
    IF rows = <<>> THEN sel ELSE select(sel, mult, rows[1])

RECURSIVE selectEach(_, _, _, _)
selectEach(sel, mult, rows, k) ==
    IF k > Len(rows) THEN sel
    ELSE selectEach(select(sel, mult, rows[k]), mult, rows, k + 1)

RECURSIVE deselectEach(_, _, _)
deselectEach(sel, rows, k) ==
    IF k > Len(rows) THEN sel
    ELSE deselectEach(deselect(sel, rows[k]), rows, k + 1)

(***************************************************************************)
(* DataService bulk operations: each maps the current batch to a new array *)
(* in which every entity whose id is among the given ones is a new object. *)
(***************************************************************************)
Stamped(e, stamp) == [e EXCEPT !.stamps = @ \cup {stamp}, !.ver = @ + 1]
StampedWithStatusInPlace(e, status, stamp) ==
    [e EXCEPT !.status = status, !.stamps = @ \cup {stamp}]

StampedWithStatus(e, status, stamp) ==
    [e EXCEPT !.status = status, !.stamps = @ \cup {stamp}, !.ver = @ + 1]

sendUserNotifications(current, given) ==
    [k \in DOMAIN current |->
        IF \E u \in given : u.id = current[k].id
        THEN Stamped(current[k], "lastNotified") ELSE current[k]]

updateUserStatus(current, given) ==
    [k \in DOMAIN current |->
        IF \E u \in given : u.id = current[k].id
        THEN StampedWithStatus(current[k], "updated", "statusChangedAt") ELSE current[k]]

resetUserPasswords(current, given) ==
    [k \in DOMAIN current |->
        IF \E u \in given : u.id = current[k].id
        THEN StampedWithStatus(current[k], "reset", "passwordResetAt") ELSE current[k]]

processOrders(current, given) ==
    [k \in DOMAIN current |->
        IF \E o \in given : o.id = current[k].id
        THEN StampedWithStatus(current[k], "processed", "processedAt") ELSE current[k]]

cancelOrders(current, given) ==
    [k \in DOMAIN current |->
        IF \E o \in given : o.id = current[k].id
        THEN StampedWithStatus(current[k], "canceled", "canceledAt") ELSE current[k]]

refundOrders(current, given) ==
    [k \in DOMAIN current |->
        IF \E o \in given : o.id = current[k].id
        THEN StampedWithStatus(current[k], "refunded", "refundedAt") ELSE current[k]]

(***************************************************************************)
(* MultiSelectActionsComponent: the action descriptors and the handlers.   *)
(***************************************************************************)
Action(type, label, icon, width) ==
    [type |-> type, label |-> label, icon |-> icon, processing |-> FALSE, width |-> width]

userActions ==
    << Action("sendNotifications", "Send Notifications", "send", "175px"),
       Action("updateStatus", "Update Status", "update", "150px"),
       Action("resetPasswords", "Reset Passwords", "lock_reset", "160px") >>

orderActions ==
    << Action("processOrders", "Process Orders", "settings", "150px"),
       Action("cancelOrders", "Cancel Orders", "cancel", "150px"),
       Action("refundOrders", "Refund Orders", "payments", "150px") >>

UserTypes == {userActions[k].type : k \in DOMAIN userActions}
OrderTypes == {orderActions[k].type : k \in DOMAIN orderActions}
Types == UserTypes \cup OrderTypes

ngOnInitActionsOfOtherContext(actionContext) ==
    IF actionContext = "users" THEN orderActions ELSE userActions

\* this.actions = this.actionContext === 'users' ? this.userActions : this.orderActions
ngOnInitActions(actionContext) ==
    IF actionContext = "users" THEN userActions ELSE orderActions

setProcessingAll(actions, type, value) ==
    [k \in DOMAIN actions |-> [actions[k] EXCEPT !.processing = value]]

setProcessingNever(actions, type, value) == actions

setProcessingTrueOnly(actions, type, value) ==
    [k \in DOMAIN actions |->
        IF actions[k].type = type /\ value
        THEN [actions[k] EXCEPT !.processing = TRUE] ELSE actions[k]]

\* const action = this.actions.find(a => a.type === type);
\* if (action) action.processing = value;
setProcessing(actions, type, value) ==
    LET found == {k \in DOMAIN actions : actions[k].type = type}
    IN IF found = {} THEN actions
       ELSE LET first == CHOOSE k \in found : \A j \in found : k <= j
            IN [actions EXCEPT ![first].processing = value]

\* The delay each handler passes to setTimeout, and the one of the loads.
DelaySendNotifications == 2000
DelayUpdateStatus == 1500
DelayResetPasswords == 2500
DelayProcessOrders == 3000
DelayCancelOrders == 1500
DelayRefundOrders == 2000
DelayLoad == 500

Delay(type) ==
    CASE type = "sendNotifications" -> DelaySendNotifications
      [] type = "updateStatus" -> DelayUpdateStatus
      [] type = "resetPasswords" -> DelayResetPasswords
      [] type = "processOrders" -> DelayProcessOrders
      [] type = "cancelOrders" -> DelayCancelOrders
      [] type = "refundOrders" -> DelayRefundOrders

\* The text of showMessage(...) at the start of each handler.
StartedText(type, n) ==
    CASE type = "sendNotifications" -> <<"Sending notifications to", n, "users...">>
      [] type = "updateStatus" -> <<"Updating status for", n, "users...">>
      [] type = "resetPasswords" -> <<"Resetting passwords for", n, "users...">>
      [] type = "processOrders" -> <<"Processing", n, "orders...">>
      [] type = "cancelOrders" -> <<"Cancelling", n, "orders...">>
      [] type = "refundOrders" -> <<"Refunding", n, "orders...">>

\* The text of showSuccess(...) in each timeout callback.
SuccessText(type) ==
    CASE type = "sendNotifications" -> <<"Notifications sent successfully.">>
      [] type = "updateStatus" -> <<"User status updated successfully.">>
      [] type = "resetPasswords" -> <<"Passwords reset successfully.">>
      [] type = "processOrders" -> <<"Orders processed successfully.">>
      [] type = "cancelOrders" -> <<"Orders cancelled successfully.">>
      [] type = "refundOrders" -> <<"Orders refunded successfully.">>

\* A snack bar: showMessage opens a plain one, showSuccess one with the
\* success panel class, showError one with the error panel class.  inv
\* names the invocation that opened it.
Note(kind, text, inv) == [kind |-> kind, text |-> text, inv |-> inv]

\* this.snackBar.open(...): the log keeps, per invocation, the kinds of the
\* snack bars in the order they were opened; the snack bars themselves are
\* kept with the task that opened them.
Open(log, note) == [log EXCEPT ![note.inv] = Append(@, note.kind)]

ServiceCallNothing(type, usersSig, ordersSig, given) == <<usersSig, ordersSig>>

ServiceCallOfOtherContext(type, usersSig, ordersSig, given) ==
    IF type \in UserTypes
    THEN <<usersSig, SignalOf(processOrders(OrEmpty(ordersSig), given))>>
    ELSE <<SignalOf(updateUserStatus(OrEmpty(usersSig), given)), ordersSig>>

\* this.dataService.<operation>(this.selectedItems) of the handler of `type`:
\* the values of the two signals afterwards.
ServiceCall(type, usersSig, ordersSig, given) ==
    CASE type = "sendNotifications" ->
            <<SignalOf(sendUserNotifications(OrEmpty(usersSig), given)), ordersSig>>
      [] type = "updateStatus" ->
            <<SignalOf(updateUserStatus(OrEmpty(usersSig), given)), ordersSig>>
      [] type = "resetPasswords" ->
            <<SignalOf(resetUserPasswords(OrEmpty(usersSig), given)), ordersSig>>
      [] type = "processOrders" ->
            <<usersSig, SignalOf(processOrders(OrEmpty(ordersSig), given))>>
      [] type = "cancelOrders" ->
            <<usersSig, SignalOf(cancelOrders(OrEmpty(ordersSig), given))>>
      [] type = "refundOrders" ->
            <<usersSig, SignalOf(refundOrders(OrEmpty(ordersSig), given))>>

\* Which signal the operation of `type` sets.
SignalSetBy(type) == IF type \in UserTypes THEN "users" ELSE "orders"

(***************************************************************************)
(* Component instances.  *ngIf="multiSelect" creates an instance when the  *)
(* mode is switched on and destroys it when it is switched off; a          *)
(* destroyed instance keeps its fields (its pending timeouts still hold    *)
(* it), its inputs are no longer bound and its outputs no longer heard.    *)
(***************************************************************************)
\* A destroyed instance lives on only while one of its timeouts is pending,
\* so at most MaxInv destroyed instances and the live one exist at a time.
Insts == 1..(MaxInv + 1)

NoComp == [state |-> "none", actionContext |-> "users", actions |-> <<>>, selectedItems |-> {}]

NewComp(actionContext, selectedItems) ==
    [state |-> "live", actionContext |-> actionContext,
     actions |-> ngOnInitActions(actionContext), selectedItems |-> selectedItems]

Live(cs) == {i \in Insts : cs[i].state = "live"}

\* [selectedItems]="selection.selected", refreshed by change detection
Rebind(cs, sel) ==
    [i \in Insts |-> IF cs[i].state = "live" THEN [cs[i] EXCEPT !.selectedItems = sel] ELSE cs[i]]

\* A destroyed instance is reachable from its pending timeouts only: with
\* none left it is garbage.
Collect(cs, pending) ==
    [i \in Insts |->
        IF cs[i].state = "dead" /\ ~\E k \in DOMAIN pending : pending[k].inst = i
        THEN NoComp ELSE cs[i]]

Processing(cs, i, type) ==
    \E k \in DOMAIN cs[i].actions :
        cs[i].actions[k].type = type /\ cs[i].actions[k].processing

(***************************************************************************)
(* DataTableComponent.                                                      *)
(***************************************************************************)
displayedColumns(c) ==
    IF c = "users"
    THEN <<"name", "email", "department", "status", "lastLogin", "createdAt">>
    ELSE <<"name", "email", "amount", "status", "orderDate", "createdAt">>

\* [dataSource]="users() || []" / "orders() || []"
DataSourceOf(c, usersSig, ordersSig) ==
    IF c = "users" THEN OrEmpty(usersSig) ELSE OrEmpty(ordersSig)

dataSource == DataSourceOf(ctx, users, orders)

\* The binding yields a new array when the signal of the page was set in
\* the task, and on every evaluation while the signal is null ("|| []").
DataSourceChanged(c, usersSig, ordersSig, setSignals) ==
    \/ c \in setSignals
    \/ (IF c = "users" THEN usersSig ELSE ordersSig).isNull

ngOnChangesKeeping(sel, dataSourceChanged) == sel

\* if (changes['dataSource'] && changes['dataSource'].currentValue)
\*   this.selection.clear();
\* currentValue is an array, which is truthy also when empty.
ngOnChanges(sel, dataSourceChanged) ==
    IF dataSourceChanged THEN clear(sel) ELSE sel

isAllSelectedAlsoOfNoRows == Cardinality(selection) = Len(dataSource)

isAllSelected ==
    LET numSelected == Cardinality(selection)
        numRows == Len(dataSource)
    IN numSelected = numRows /\ numRows > 0

isIndeterminateAlsoOfNone == Cardinality(selection) < Len(dataSource)

isIndeterminate ==
    LET numSelected == Cardinality(selection)
        numRows == Len(dataSource)
    IN numSelected > 0 /\ numSelected < numRows

(***************************************************************************)
(* Timers.  A pending callback is kept with its delay; the callbacks are   *)
(* kept in the order the setTimeout calls were made.  A callback cannot    *)
(* run before one that was scheduled earlier with a delay that is not      *)
(* longer; otherwise the order depends on when the user clicked.  With    *)
(* history on, a callback remembers the ids that were selected when it was *)
(* scheduled, which the program does not keep.                             *)
(***************************************************************************)
Timer(kind, type, inst, inv, delay, invoked) ==
    [kind |-> kind, type |-> type, inst |-> inst, inv |-> inv, delay |-> delay,
     invoked |-> IF history THEN invoked ELSE {}]

CanFire(k) == \A j \in 1..(k - 1) : timers[j].delay > timers[k].delay

Remove(seq, k) == SubSeq(seq, 1, k - 1) \o SubSeq(seq, k + 1, Len(seq))

NoEntity == [id |-> "", status |-> "", stamps |-> {}, ver |-> 0]

\* The record of the task that led to the current state, kept with history
\* on.
Task(op, type, inst, inv, busyBefore, busyAfter, given, invoked, updated, pre, x, opened) ==
    IF history
    THEN [op |-> op, type |-> type, inst |-> inst, inv |-> inv, busyBefore |-> busyBefore,
          busyAfter |-> busyAfter, given |-> given, invoked |-> invoked,
          updated |-> updated, pre |-> pre, x |-> x, opened |-> opened]
    ELSE [op |-> "init", type |-> "", inst |-> 0, inv |-> 0, busyBefore |-> FALSE,
          busyAfter |-> FALSE, given |-> {}, invoked |-> {}, updated |-> {},
          pre |-> {}, x |-> NoEntity, opened |-> <<>>]

NoTask == Task("init", "", 0, 0, FALSE, FALSE, {}, {}, {}, {}, NoEntity, <<>>)

(***************************************************************************)
(* Spec: the page after its construction.  The page constructor has called *)
(* loadUsers() / loadOrders(), so the load flag is set and the load timer  *)
(* is pending; the table has run ngOnInit.                                 *)
(***************************************************************************)
Constructed ==
    /\ ctx \in Contexts
    /\ users = NullSignal
    /\ orders = NullSignal
    /\ usersLoaded = (ctx = "users")
    /\ ordersLoaded = (ctx = "orders")
    /\ multiSelect = FALSE
    /\ multiple = TRUE
    /\ selection = {}
    /\ currentDisplayedColumns = displayedColumns(ctx)
    /\ comps = [i \in Insts |-> NoComp]
    /\ timers = <<Timer("load", ctx, 0, 0, DelayLoad, {})>>
    /\ notes = [n \in 1..MaxInv |-> <<>>]
    /\ nInv = 0
    /\ last = NoTask
    /\ prev = NoTask

Init == history = TRUE /\ Constructed

\* The timeout of loadUsers / loadOrders: this._users.set([...]).
LoadDone ==
    \E k \in DOMAIN timers :
        /\ timers[k].kind = "load"
        /\ CanFire(k)
        /\ LET which == timers[k].type
               users1 == IF which = "users" THEN SignalOf(InitialUsers) ELSE users
               orders1 == IF which = "orders" THEN SignalOf(InitialOrders) ELSE orders
               sel2 == ngOnChanges(selection,
                                   DataSourceChanged(ctx, users1, orders1, {which}))
           IN /\ users' = users1
              /\ orders' = orders1
              /\ selection' = sel2
              /\ comps' = Rebind(comps, sel2)
              /\ timers' = Remove(timers, k)
              /\ last' = Task("load", which, 0, 0, FALSE, FALSE, {}, {}, {}, IdsOf(selection), NoEntity, <<>>)
        /\ UNCHANGED <<ctx, usersLoaded, ordersLoaded, multiSelect, multiple,
                       currentDisplayedColumns, notes, nInv, prev, history>>

toggleMultiSelectKeepingColumns ==
    LET ms1 == ~multiSelect
        sel1 == IF ~ms1 THEN clear(selection) ELSE selection
        sel2 == ngOnChanges(sel1, DataSourceChanged(ctx, users, orders, {}))
        free == {i \in Insts : comps[i].state = "none"}
    IN /\ multiSelect' = ms1
       /\ currentDisplayedColumns' =
              IF ms1 THEN <<"select">> \o currentDisplayedColumns ELSE currentDisplayedColumns
       /\ selection' = sel2
       /\ comps' =
              IF ms1
              THEN LET new == CHOOSE i \in free : \A j \in free : i <= j
                   IN [comps EXCEPT ![new] = NewComp(ctx, sel2)]
              ELSE Collect([i \in Insts |->
                               IF comps[i].state = "live"
                               THEN [comps[i] EXCEPT !.state = "dead"] ELSE comps[i]],
                           timers)
       /\ last' = Task("toggleMultiSelect", "", 0, 0, FALSE, FALSE, {}, {}, {},
                       IdsOf(selection), NoEntity, <<>>)
       /\ UNCHANGED <<ctx, users, orders, usersLoaded, ordersLoaded, multiple,
                      timers, notes, nInv, prev, history>>

\* DataTableComponent.toggleMultiSelect, then *ngIf="multiSelect".
toggleMultiSelect ==
    LET ms1 == ~multiSelect
        sel1 == IF ~ms1 THEN clear(selection) ELSE selection
        sel2 == ngOnChanges(sel1, DataSourceChanged(ctx, users, orders, {}))
        free == {i \in Insts : comps[i].state = "none"}
    IN /\ multiSelect' = ms1
       /\ currentDisplayedColumns' =
              IF ms1 THEN <<"select">> \o displayedColumns(ctx) ELSE displayedColumns(ctx)
       /\ selection' = sel2
       /\ comps' =
              IF ms1
              THEN LET new == CHOOSE i \in free : \A j \in free : i <= j
                   IN [comps EXCEPT ![new] = NewComp(ctx, sel2)]
              ELSE Collect([i \in Insts |->
                               IF comps[i].state = "live"
                               THEN [comps[i] EXCEPT !.state = "dead"] ELSE comps[i]],
                           timers)
       /\ last' = Task("toggleMultiSelect", "", 0, 0, FALSE, FALSE, {}, {}, {},
                       IdsOf(selection), NoEntity, <<>>)
       /\ UNCHANGED <<ctx, users, orders, usersLoaded, ordersLoaded, multiple,
                      timers, notes, nInv, prev, history>>

\* DataTableComponent.checkRow: the checkbox of a row of the select column.
checkRow ==
    /\ multiSelect
    /\ \E k \in DOMAIN dataSource :
        LET row == dataSource[k]
            sel1 == toggle(selection, multiple, row)
            sel2 == ngOnChanges(sel1, DataSourceChanged(ctx, users, orders, {}))
        IN /\ selection' = sel2
           /\ comps' = Rebind(comps, sel2)
           /\ last' = Task("checkRow", "", 0, 0, FALSE, FALSE, {}, {}, {}, IdsOf(selection), row, <<>>)
    /\ UNCHANGED <<ctx, users, orders, usersLoaded, ordersLoaded, multiSelect, multiple,
                   currentDisplayedColumns, timers, notes, nInv, prev, history>>

\* DataTableComponent.toggleAllOnPage: the header checkbox, which reports
\* the opposite of the checked state it shows.
toggleAllOnPage ==
    /\ multiSelect
    /\ LET isChecked == ~isAllSelected
           sel1 == IF isChecked
                   THEN selectEach(selection, multiple, dataSource, 1)
                   ELSE deselectEach(selection, dataSource, 1)
           sel2 == ngOnChanges(sel1, DataSourceChanged(ctx, users, orders, {}))
       IN /\ selection' = sel2
          /\ comps' = Rebind(comps, sel2)
          /\ last' = Task(IF isChecked THEN "selectAll" ELSE "deselectAll",
                          "", 0, 0, FALSE, FALSE, {}, {}, {}, IdsOf(selection), NoEntity, <<>>)
    /\ UNCHANGED <<ctx, users, orders, usersLoaded, ordersLoaded, multiSelect, multiple,
                   currentDisplayedColumns, timers, notes, nInv, prev, history>>

\* MultiSelectActionsComponent.clearSelectedItems from the clear button:
\* clearSelected.emit() -> DataTableComponent.clearSelection().
clearSelectedItems ==
    /\ \E i \in Live(comps) :
        LET sel1 == clear(selection)
            sel2 == ngOnChanges(sel1, DataSourceChanged(ctx, users, orders, {}))
        IN /\ selection' = sel2
           /\ comps' = Rebind(comps, sel2)
           /\ last' = Task("clear", "", i, 0, FALSE, FALSE, {}, {}, {}, IdsOf(selection), NoEntity, <<>>)
    /\ UNCHANGED <<ctx, users, orders, usersLoaded, ordersLoaded, multiSelect, multiple,
                   currentDisplayedColumns, timers, notes, nInv, prev, history>>

\* The button of an action is there while the action is not processing,
\* and enabled while selectedItems is not empty.
ButtonEnabledIgnoringProcessing(i, k) ==
    comps[i].selectedItems # {}

ButtonEnabledIgnoringSelection(i, k) ==
    ~comps[i].actions[k].processing

ButtonEnabled(i, k) ==
    /\ ~comps[i].actions[k].processing
    /\ comps[i].selectedItems # {}

\* A click on an action button: action.action(action.type), the first half
\* of the handler up to setTimeout.
Invoke ==
    /\ nInv < MaxInv
    /\ \E i \in Live(comps) : \E k \in DOMAIN comps[i].actions :
        LET type == comps[i].actions[k].type
            items == comps[i].selectedItems
            actions1 == setProcessing(comps[i].actions, type, TRUE)
            sel2 == ngOnChanges(selection, DataSourceChanged(ctx, users, orders, {}))
            note == Note("message", StartedText(type, Cardinality(items)), nInv + 1)
        IN /\ ButtonEnabled(i, k)
           /\ comps' = Rebind([comps EXCEPT ![i].actions = actions1], sel2)
           /\ notes' = Open(notes, note)
           /\ timers' = Append(timers,
                               Timer("action", type, i, nInv + 1, Delay(type), IdsOf(items)))
           /\ selection' = sel2
           /\ nInv' = nInv + 1
           /\ last' = Task("invoke", type, i, nInv + 1, comps[i].actions[k].processing,
                           actions1[k].processing, IdsOf(items), IdsOf(items), {},
                           IdsOf(selection), NoEntity, <<note>>)
    /\ UNCHANGED <<ctx, users, orders, usersLoaded, ordersLoaded, multiSelect, multiple,
                   currentDisplayedColumns, prev, history>>

\* What clearSelected.emit() does to the table's selection: the table
\* listens to the output of the instance in its view only.
EmitClearSelected(cs, i, sel) ==
    IF cs[i].state = "live" THEN clear(sel) ELSE sel

\* The timeout callback of a handler.
Complete ==
    \E k \in DOMAIN timers :
        /\ timers[k].kind = "action"
        /\ CanFire(k)
        /\ LET t == timers[k]
               i == t.inst
               given == comps[i].selectedItems
               sigs == ServiceCall(t.type, users, orders, given)
               sel1 == EmitClearSelected(comps, i, selection)
               comps1 == [comps EXCEPT ![i].actions = setProcessing(@, t.type, FALSE)]
               sel2 == ngOnChanges(sel1, DataSourceChanged(ctx, sigs[1], sigs[2],
                                                           {SignalSetBy(t.type)}))
               before == DataSourceOf(SignalSetBy(t.type), users, orders)
               after == DataSourceOf(SignalSetBy(t.type), sigs[1], sigs[2])
               updated == {after[n].id : n \in {m \in DOMAIN after : after[m] # before[m]}}
               note == Note("success", SuccessText(t.type), t.inv)
           IN /\ users' = sigs[1]
              /\ orders' = sigs[2]
              /\ notes' = Open(notes, note)
              /\ selection' = sel2
              /\ comps' = Collect(Rebind(comps1, sel2), Remove(timers, k))
              /\ timers' = Remove(timers, k)
              /\ last' = Task("complete", t.type, i, t.inv, Processing(comps, i, t.type),
                              Processing(comps1, i, t.type), IdsOf(given), t.invoked,
                              updated, IdsOf(selection), NoEntity, <<note>>)
        /\ UNCHANGED <<ctx, usersLoaded, ordersLoaded, multiSelect, multiple,
                       currentDisplayedColumns, nInv, prev, history>>

Next ==
    \/ LoadDone
    \/ toggleMultiSelect
    \/ checkRow
    \/ toggleAllOnPage
    \/ clearSelectedItems
    \/ Invoke
    \/ Complete

Spec == Init /\ [][Next]_vars

\* FairSpec: the same page, with history off, in a browser that runs the
\* callback of every pending timer: the load and the completion of each
\* invocation are taken once they can be.
FairInit == history = FALSE /\ Constructed

CompleteOf(n) ==
    /\ \E k \in DOMAIN timers : timers[k].kind = "action" /\ timers[k].inv = n
    /\ Complete
    /\ \A k \in DOMAIN timers' : timers'[k].inv # n

FairSpec ==
    /\ FairInit
    /\ [][Next]_vars
    /\ WF_vars(LoadDone)
    /\ \A n \in 1..MaxInv : WF_vars(CompleteOf(n))

(***************************************************************************)
(* LoadSpec: the DataService on its own, from its construction.  Pages     *)
(* call loadUsers() and loadOrders() whenever they are constructed, any    *)
(* number of times; the timeouts of the loads are run; and the bulk        *)
(* operations are called on a loaded batch with any of its entities.       *)
(***************************************************************************)
loadAlways(loaded, pending, which) ==
    <<TRUE, Append(pending, Timer("load", which, 0, 0, DelayLoad, {}))>>

\* if (!this.usersLoaded) { this.usersLoaded = true; setTimeout(..., 500) }
\* and the same for the orders: the flag and the pending timers afterwards.
load(loaded, pending, which) ==
    IF ~loaded
    THEN <<TRUE, Append(pending, Timer("load", which, 0, 0, DelayLoad, {}))>>
    ELSE <<loaded, pending>>

LoadInit ==
    /\ history = TRUE
    /\ ctx \in Contexts
    /\ users = NullSignal
    /\ orders = NullSignal
    /\ usersLoaded = FALSE
    /\ ordersLoaded = FALSE
    /\ multiSelect = FALSE
    /\ multiple = TRUE
    /\ selection = {}
    /\ currentDisplayedColumns = displayedColumns(ctx)
    /\ comps = [i \in Insts |-> NoComp]
    /\ timers = <<>>
    /\ notes = [n \in 1..MaxInv |-> <<>>]
    /\ nInv = 0
    /\ last = NoTask
    /\ prev = NoTask

\* A call of loadUsers() or loadOrders().
LoadCall ==
    /\ \E which \in Contexts :
        LET loaded == IF which = "users" THEN usersLoaded ELSE ordersLoaded
            r == load(loaded, timers, which)
        IN /\ usersLoaded' = IF which = "users" THEN r[1] ELSE usersLoaded
           /\ ordersLoaded' = IF which = "orders" THEN r[1] ELSE ordersLoaded
           /\ timers' = r[2]
           /\ last' = Task("loadCall", which, 0, 0, loaded, r[1], {}, {}, {}, {}, NoEntity, <<>>)
    /\ UNCHANGED <<ctx, users, orders, multiSelect, multiple, selection,
                   currentDisplayedColumns, comps, notes, nInv, prev, history>>

\* A call of one of the six bulk operations.
Operation ==
    /\ nInv < MaxInv
    /\ \E type \in Types :
        LET before == DataSourceOf(SignalSetBy(type), users, orders)
        IN /\ ~(IF SignalSetBy(type) = "users" THEN users ELSE orders).isNull
           /\ \E given \in SUBSET Range(before) :
               LET sigs == ServiceCall(type, users, orders, given)
                   after == DataSourceOf(SignalSetBy(type), sigs[1], sigs[2])
                   updated == {after[n].id : n \in {m \in DOMAIN after : after[m] # before[m]}}
               IN /\ users' = sigs[1]
                  /\ orders' = sigs[2]
                  /\ last' = Task("operation", type, 0, nInv + 1, FALSE, FALSE, IdsOf(given),
                                  IdsOf(given), updated, {}, NoEntity, <<>>)
    /\ nInv' = nInv + 1
    /\ UNCHANGED <<ctx, usersLoaded, ordersLoaded, multiSelect, multiple, selection,
                   currentDisplayedColumns, comps, timers, notes, prev, history>>

LoadNext ==
    \/ LoadCall
    \/ LoadDone
    \/ Operation

LoadSpec == LoadInit /\ [][LoadNext]_vars /\ WF_vars(LoadDone)

(***************************************************************************)
(* SelSpec: a CustomSelectionModel on its own.  It is constructed empty,   *)
(* for single or for multiple selection, and its methods are called with   *)
(* entity objects: for every id there are two objects, the entity as       *)
(* loaded and the new object a refresh puts in its place.  Next to it is   *)
(* a data batch for isAllSelected and isIndeterminate to count: absent,    *)
(* or any leading part of the loaded rows, the empty one included.         *)
(***************************************************************************)
SelObjects ==
    Range(InitialUsers)
        \cup {StampedWithStatus(e, "updated", "statusChangedAt") : e \in Range(InitialUsers)}

SelBatches == {NullSignal} \cup {SignalOf(SubSeq(InitialUsers, 1, n)) : n \in 0..NumRows}

SelInit ==
    /\ history = TRUE
    /\ ctx = "users"
    /\ users \in SelBatches
    /\ orders = NullSignal
    /\ usersLoaded = FALSE
    /\ ordersLoaded = FALSE
    /\ multiSelect = FALSE
    /\ multiple \in BOOLEAN
    /\ selection = {}
    /\ currentDisplayedColumns = <<>>
    /\ comps = [i \in Insts |-> NoComp]
    /\ timers = <<>>
    /\ notes = [n \in 1..MaxInv |-> <<>>]
    /\ nInv = 0
    /\ last = NoTask
    /\ prev = NoTask

Call(op, x) == Task(op, "", 0, 0, FALSE, FALSE, {}, {}, {}, selection, x, <<>>)

SelFrame ==
    UNCHANGED <<ctx, users, orders, usersLoaded, ordersLoaded, multiSelect, multiple,
                currentDisplayedColumns, comps, timers, notes, nInv, history>>

SelSelect ==
    /\ \E x \in SelObjects :
        /\ selection' = select(selection, multiple, x)
        /\ last' = Call("select", x)
    /\ prev' = last
    /\ SelFrame

SelDeselect ==
    /\ \E x \in SelObjects :
        /\ selection' = deselect(selection, x)
        /\ last' = Call("deselect", x)
    /\ prev' = last
    /\ SelFrame

SelToggle ==
    /\ \E x \in SelObjects :
        /\ selection' = toggle(selection, multiple, x)
        /\ last' = Call("toggle", x)
    /\ prev' = last
    /\ SelFrame

SelClear ==
    /\ selection' = clear(selection)
    /\ last' = Call("clear", NoEntity)
    /\ prev' = last
    /\ SelFrame

SelNext ==
    \/ SelSelect
    \/ SelDeselect
    \/ SelToggle
    \/ SelClear

SelSpec == SelInit /\ [][SelNext]_vars

(***************************************************************************)
(* Claims about the selection model, checked under SelSpec.                *)
(***************************************************************************)
HasId(sel, id) == \E s \in sel : s.id = id

\* C1: after select(A), isSelected(B) is true for every entity B with A's
\* id, also when B is another object with other field values; and
\* isSelected(B) is false whenever no selected entity has B's id.
C1_SelectedById ==
    /\ last.op = "select" =>
           \A B \in SelObjects : B.id = last.x.id => isSelected(selection, B)
    /\ \A B \in SelObjects : ~HasId(selection, B.id) => ~isSelected(selection, B)

\* C1 witness: select(A) has put A in the set and there is another object B
\* with the same id and another status that is not in the set.
C1_Witness ==
    /\ last.op = "select"
    /\ last.x \in selection
    /\ \E B \in SelObjects :
           B.id = last.x.id /\ B.status # last.x.status /\ B \notin selection

\* C9: toggle(B) goes by identity: when an entity with B's id was selected,
\* also as another object, none with that id is selected afterwards, and
\* otherwise one is; after deselect(B), isSelected(B) is false.
C9_ToggleByIdentity ==
    /\ last.op = "toggle" =>
           IF HasId(last.pre, last.x.id)
           THEN ~HasId(selection, last.x.id)
           ELSE HasId(selection, last.x.id)
    /\ last.op = "deselect" => ~isSelected(selection, last.x)

TwoToggles == last.op = "toggle" /\ prev.op = "toggle" /\ last.x = prev.x

\* C10 as stated: toggle(x); toggle(x) leaves the membership of x and of
\* every other entity as it was before the two calls, for every selection
\* set.
C10_ToggleTwiceAnySet ==
    TwoToggles =>
        \A y \in SelObjects : HasId(selection, y.id) <=> HasId(prev.pre, y.id)

\* C10 as amended: toggle(x); toggle(x) leaves the membership of x as it
\* was before the two calls, and in a multiple-selection set also the
\* membership of every other entity.
C10_ToggleTwice ==
    TwoToggles =>
        /\ HasId(selection, last.x.id) <=> HasId(prev.pre, last.x.id)
        /\ multiple =>
               \A y \in SelObjects : HasId(selection, y.id) <=> HasId(prev.pre, y.id)

\* C10 witness: x was toggled twice in a multiple-selection set in which
\* another entity was selected and x was not.
C10_Witness ==
    /\ TwoToggles
    /\ multiple
    /\ ~HasId(prev.pre, last.x.id)
    /\ \E y \in prev.pre : y.id # last.x.id

\* C12: isAllSelected() is true exactly when the selected count equals the
\* visible row count and that count is greater than 0; it is false whenever
\* the batch is empty or absent, whatever is selected.
C12_AllSelected ==
    LET numSelected == Cardinality(selection)
        numRows == Len(OrEmpty(users))
    IN /\ isAllSelected <=> (numSelected = numRows /\ numRows > 0)
       /\ (users.isNull \/ users.value = <<>>) => ~isAllSelected

\* C12 witness: every row of a non-empty batch is selected and
\* isAllSelected() is true.
C12_Witness ==
    /\ isAllSelected
    /\ Len(OrEmpty(users)) = NumRows
    /\ \A k \in 1..NumRows : HasId(selection, users.value[k].id)

\* C13: isIndeterminate() is true exactly when the selected count is
\* greater than 0 and less than the visible row count; it is never true
\* together with isAllSelected() and never when nothing is selected.
C13_Indeterminate ==
    LET numSelected == Cardinality(selection)
        numRows == Len(OrEmpty(users))
    IN /\ isIndeterminate <=> (0 < numSelected /\ numSelected < numRows)
       /\ ~(isIndeterminate /\ isAllSelected)
       /\ selection = {} => ~isIndeterminate

\* C13 witness: some but not all rows of the batch are selected and
\* isIndeterminate() is true.
C13_Witness ==
    /\ isIndeterminate
    /\ ~isAllSelected
    /\ \E k \in DOMAIN OrEmpty(users) : HasId(selection, users.value[k].id)

\* C21: in a single-selection set, select(x) of an entity that is not
\* selected clears what was selected before it adds x, so the selection
\* count never exceeds 1.
C21_SingleSelection ==
    ~multiple =>
        /\ Cardinality(selection) <= 1
        /\ (last.op = "select" /\ ~isSelected(last.pre, last.x)) => selection = {last.x}

\* C21 witness: in a single-selection set, select(x) has replaced another
\* selected entity by x.
C21_Witness ==
    /\ ~multiple
    /\ last.op = "select"
    /\ \E y \in last.pre : y.id # last.x.id
    /\ selection = {last.x}

\* C25: no two selected entities have the same id: select(B) adds nothing
\* when an entity with B's id is selected already, so the selected count
\* is the number of distinct selected ids.
C25_NoDuplicateIds ==
    /\ \A a, b \in selection : a.id = b.id => a = b
    /\ Cardinality(selection) = Cardinality(IdsOf(selection))
    /\ (last.op = "select" /\ HasId(last.pre, last.x.id)) => selection = last.pre

\* C25 witness: select(B) was called while another object with B's id was
\* selected, and B was not added.
C25_Witness ==
    /\ last.op = "select"
    /\ last.x \notin selection
    /\ \E a \in selection : a.id = last.x.id /\ a # last.x
    /\ selection = last.pre

(***************************************************************************)
(* Claims about the table and its bulk actions, checked under Spec.        *)
(***************************************************************************)
PendingOf(i, type) ==
    {k \in DOMAIN timers :
        timers[k].kind = "action" /\ timers[k].inst = i /\ timers[k].type = type}

PendingInv(n) == \E k \in DOMAIN timers : timers[k].kind = "action" /\ timers[k].inv = n

\* C2: whenever the data batch of the table is set, the selection count is
\* 0 afterwards, whatever the new batch is, also one equal to the batch
\* before.
C2_SetDataClearsSelection ==
    last.op \in {"load", "complete"} => Cardinality(selection) = 0

\* C2 witness: an action has completed without changing any entity, so the
\* new batch equals the old one, while rows were selected.
C2_Witness ==
    /\ last.op = "complete"
    /\ last.updated = {}
    /\ last.pre # {}
    /\ selection = {}

\* C3: an invocation takes the busy flag of its action from false to true,
\* its completion takes it from true to false, and every invocation opens
\* exactly one started snack bar, announcing the count of the selection it
\* was invoked on, and then, at its completion, exactly one terminal one.
C3_InvocationLifecycle ==
    /\ last.op = "invoke" =>
           /\ ~last.busyBefore /\ last.busyAfter
           /\ last.opened = <<Note("message",
                                   StartedText(last.type, Cardinality(last.invoked)),
                                   last.inv)>>
    /\ last.op = "complete" =>
           /\ last.busyBefore /\ ~last.busyAfter
           /\ Len(last.opened) = 1 /\ last.opened[1].kind \in {"success", "error"}
    /\ last.op \notin {"invoke", "complete"} => last.opened = <<>>
    /\ \A n \in 1..MaxInv :
        /\ n > nInv => notes[n] = <<>> /\ ~PendingInv(n)
        /\ (n <= nInv /\ PendingInv(n)) => notes[n] = <<"message">>
        /\ (n <= nInv /\ ~PendingInv(n)) =>
               notes[n] \in {<<"message", "success">>, <<"message", "error">>}

\* C3 witness: an invocation has completed.
C3_Witness ==
    /\ last.op = "complete"
    /\ Len(notes[last.inv]) = 2

\* C4: the entities an invocation updates in the batch are exactly those
\* whose ids were selected when the action was invoked, the selection whose
\* count the started message announced.
C4_UpdatesInvokedSelection ==
    last.op = "complete" =>
        last.updated = last.invoked

\* The timestamp field and the status each operation sets.
StampOf(type) ==
    CASE type = "sendNotifications" -> "lastNotified"
      [] type = "updateStatus" -> "statusChangedAt"
      [] type = "resetPasswords" -> "passwordResetAt"
      [] type = "processOrders" -> "processedAt"
      [] type = "cancelOrders" -> "canceledAt"
      [] type = "refundOrders" -> "refundedAt"

StatusOf(type, old) ==
    CASE type = "sendNotifications" -> old
      [] type = "updateStatus" -> "updated"
      [] type = "resetPasswords" -> "reset"
      [] type = "processOrders" -> "processed"
      [] type = "cancelOrders" -> "canceled"
      [] type = "refundOrders" -> "refunded"

\* C5: in the state in which a completed action's busy flag is false again,
\* the batch holds the updated entities, the success snack bar is open and
\* the selection count is 0.
C5_CompletionState ==
    last.op = "complete" =>
        LET sig == IF SignalSetBy(last.type) = "users" THEN users ELSE orders
        IN /\ ~last.busyAfter
           /\ ~Processing(comps, last.inst, last.type)
           /\ ~sig.isNull
           /\ \A k \in DOMAIN sig.value :
                  sig.value[k].id \in last.given =>
                      /\ StampOf(last.type) \in sig.value[k].stamps
                      /\ sig.value[k].status = StatusOf(last.type, sig.value[k].status)
                      /\ sig.value[k].id \in last.updated
           /\ last.opened = <<Note("success", SuccessText(last.type), last.inv)>>
           /\ notes[last.inv][Len(notes[last.inv])] = "success"
           /\ Cardinality(selection) = 0

\* C5 witness: an action has completed on two selected entities.
C5_Witness ==
    /\ last.op = "complete"
    /\ Cardinality(last.given) = 2
    /\ last.updated = last.given

\* C6: an action whose busy flag is true is not invoked: no invocation
\* starts on a busy action, and an action of a component never has two
\* completions pending.
C6_BusyNotReinvoked ==
    /\ last.op = "invoke" => ~last.busyBefore
    /\ \A i \in Insts : \A type \in Types : Cardinality(PendingOf(i, type)) <= 1

\* C6 witness: an action is busy while rows are selected and the other
\* actions can still be invoked.
C6_Witness ==
    /\ nInv < MaxInv
    /\ \E i \in Live(comps) :
        /\ comps[i].selectedItems # {}
        /\ \E k \in DOMAIN comps[i].actions : comps[i].actions[k].processing
        /\ \E k \in DOMAIN comps[i].actions : ButtonEnabled(i, k)

\* C7: the busy flags are independent: a busy flag changes only in the
\* invocation or the completion of its own action, so invoking or
\* completing one action never changes the flag of another.
C7_IndependentBusyFlags ==
    [][\A i \in Insts : \A type \in Types :
          Processing(comps', i, type) # Processing(comps, i, type) =>
              /\ last'.op \in {"invoke", "complete"}
              /\ last'.inst = i
              /\ last'.type = type]_vars

\* C7 witness: an action was invoked while another action of the same
\* component was busy.
C7_Witness ==
    /\ last.op = "invoke"
    /\ \E type \in Types : type # last.type /\ Processing(comps, last.inst, type)

\* C11: switching from multi-select mode to single-row mode leaves the
\* selection empty, whatever was selected before, and leaves the select
\* column out of the displayed columns.
C11_SingleRowModeClears ==
    (last.op = "toggleMultiSelect" /\ ~multiSelect) =>
        /\ Cardinality(selection) = 0
        /\ \A k \in DOMAIN currentDisplayedColumns : currentDisplayedColumns[k] # "select"
        /\ currentDisplayedColumns = displayedColumns(ctx)

\* C11 witness: the mode was switched off while rows were selected.
C11_Witness ==
    /\ last.op = "toggleMultiSelect"
    /\ ~multiSelect
    /\ last.pre # {}
    /\ selection = {}

\* C14: while the selection is empty no action is invoked: the next task
\* starts no execution, so no busy flag becomes true, no notification is
\* opened for a new invocation and no operation on the batch is scheduled.
C14_EmptySelectionNotInvoked ==
    [][selection = {} =>
          /\ last'.op # "invoke"
          /\ nInv' = nInv
          /\ \A i \in Insts : \A type \in Types :
                 Processing(comps', i, type) => Processing(comps, i, type)
          /\ \A n \in 1..MaxInv : notes[n] = <<>> => notes'[n] = <<>>
          /\ Len(timers') <= Len(timers)]_vars

\* C14 witness: the batch is loaded, the action bar is shown with an action
\* that is not busy, and nothing is selected.
C14_Witness ==
    /\ selection = {}
    /\ dataSource # <<>>
    /\ nInv < MaxInv
    /\ \E i \in Live(comps) :
        /\ comps[i].selectedItems = {}
        /\ \E k \in DOMAIN comps[i].actions : ~comps[i].actions[k].processing

\* C16: a bulk operation sets the batch to a new one with the same ids in
\* the same order; each entity whose id is among the given ones is a new
\* entity with the status and the timestamp of the operation set (the
\* status as it was for sendUserNotifications) and its other timestamps
\* kept, and every other entity is the one it was; the batch of the other
\* context is left alone.
C16_BulkOperationFrame ==
    [][last'.op = "complete" =>
          LET c == SignalSetBy(last'.type)
              before == DataSourceOf(c, users, orders)
              after == DataSourceOf(c, users', orders')
          IN /\ ~(IF c = "users" THEN users' ELSE orders').isNull
             /\ IF c = "users" THEN orders' = orders ELSE users' = users
             /\ DOMAIN after = DOMAIN before
             /\ \A k \in DOMAIN before :
                    /\ after[k].id = before[k].id
                    /\ IF before[k].id \in last'.given
                       THEN /\ after[k].ver # before[k].ver
                            /\ after[k].status = StatusOf(last'.type, before[k].status)
                            /\ after[k].stamps = before[k].stamps \cup {StampOf(last'.type)}
                       ELSE after[k] = before[k]]_vars

\* C16 witness: an operation has updated one entity of the batch and left
\* another one as it was.
C16_Witness ==
    /\ last.op = "complete"
    /\ Cardinality(last.updated) = 1
    /\ last.updated = last.given
    /\ Len(dataSource) > 1

\* The names and the labels of the actions of each context, as declared.
DeclaredNames(c) ==
    IF c = "users"
    THEN <<"sendNotifications", "updateStatus", "resetPasswords">>
    ELSE <<"processOrders", "cancelOrders", "refundOrders">>

DeclaredLabels(c) ==
    IF c = "users"
    THEN <<"Send Notifications", "Update Status", "Reset Passwords">>
    ELSE <<"Process Orders", "Cancel Orders", "Refund Orders">>

\* C17: in every state the actions of every component of the page are the
\* declared ones of its context, in the declared order, with names unique
\* within the context; a descriptor differs from the declared one in its
\* busy flag at most.
C17_ActionListStable ==
    \A i \in Insts : comps[i].state # "none" =>
        LET actions == comps[i].actions
            declared == ngOnInitActions(comps[i].actionContext)
        IN /\ comps[i].actionContext = ctx
           /\ [k \in DOMAIN actions |-> actions[k].type] = DeclaredNames(ctx)
           /\ [k \in DOMAIN actions |-> actions[k].label] = DeclaredLabels(ctx)
           /\ \A j, k \in DOMAIN actions : actions[j].type = actions[k].type => j = k
           /\ \A k \in DOMAIN actions :
                  [actions[k] EXCEPT !.processing = FALSE] = declared[k]

\* C17 witness: an action of the shown component is busy, and a destroyed
\* component still holds its own list with a busy action.
C17_Witness ==
    /\ \E i \in Live(comps) : \E k \in DOMAIN comps[i].actions : comps[i].actions[k].processing
    /\ \E i \in Insts :
        /\ comps[i].state = "dead"
        /\ \E k \in DOMAIN comps[i].actions : comps[i].actions[k].processing

\* C18: a clear by the user leaves the selection count at 0 whatever was
\* selected, and changes nothing else: the batches, the multi-select mode,
\* the displayed columns, every busy flag, the pending completions and the
\* notifications are as before.
C18_ClearSelectionFrame ==
    [][last'.op = "clear" =>
          /\ Cardinality(selection') = 0
          /\ users' = users /\ orders' = orders
          /\ multiSelect' = multiSelect
          /\ currentDisplayedColumns' = currentDisplayedColumns
          /\ \A i \in Insts :
                 /\ comps'[i].state = comps[i].state
                 /\ comps'[i].actions = comps[i].actions
          /\ timers' = timers
          /\ notes' = notes]_vars

\* C18 witness: the selection was cleared by the user while two rows were
\* selected and an action was busy.
C18_Witness ==
    /\ last.op = "clear"
    /\ Cardinality(last.pre) = 2
    /\ selection = {}
    /\ \E k \in DOMAIN comps[last.inst].actions : comps[last.inst].actions[k].processing

\* The pending completion of invocation n.
TimerOf(n) == timers[CHOOSE k \in DOMAIN timers : timers[k].kind = "action" /\ timers[k].inv = n]

\* C19: every invocation runs to completion: an invocation is pending from
\* its start, it does not stay pending for ever, and it stops being
\* pending by its own completion only, whatever the user does in between,
\* which opens its terminal notification and leaves its busy flag false.
C19_InvocationCompletes ==
    /\ \A n \in 1..MaxInv : []<>~PendingInv(n)
    /\ [][\A n \in 1..MaxInv :
              /\ (nInv < n /\ nInv' >= n) =>
                     /\ PendingInv(n)'
                     /\ Processing(comps', TimerOf(n)'.inst, TimerOf(n)'.type)
              /\ (PendingInv(n) /\ ~PendingInv(n)') =>
                     /\ notes[n] = <<"message">>
                     /\ notes'[n] \in {<<"message", "success">>, <<"message", "error">>}
                     /\ ~Processing(comps', TimerOf(n).inst, TimerOf(n).type)]_vars

\* C19 witness: an invocation has completed while the mode was switched
\* off and a later invocation is still pending.
C19_Witness ==
    /\ ~multiSelect
    /\ notes[1] = <<"message", "success">>
    /\ ~PendingInv(1)
    /\ PendingInv(2)

\* C20: selections persist across data operations: a row that was selected
\* before an operation put a new object with the same id in its place in
\* the batch is still reported as selected by the table afterwards.
C20_SelectionPersists ==
    last.op = "complete" =>
        \A k \in DOMAIN dataSource :
            (dataSource[k].id \in last.pre /\ dataSource[k].id \in last.updated) =>
                isSelected(selection, dataSource[k])

\* C22: actions are scoped to their context: the action bar of a users
\* table holds the three user actions only and the one of an orders table
\* the three order actions only, and no task of a users page changes the
\* orders batch nor any task of an orders page the users batch.
C22_ContextScoped ==
    /\ [](\A i \in Insts : comps[i].state # "none" =>
             {comps[i].actions[k].type : k \in DOMAIN comps[i].actions} =
                 IF ctx = "users"
                 THEN {"sendNotifications", "updateStatus", "resetPasswords"}
                 ELSE {"processOrders", "cancelOrders", "refundOrders"})
    /\ [][/\ ctx = "users" => orders' = orders
          /\ ctx = "orders" => users' = users
          /\ last'.op \in {"invoke", "complete"} =>
                 last'.type \in IF ctx = "users"
                                THEN {"sendNotifications", "updateStatus", "resetPasswords"}
                                ELSE {"processOrders", "cancelOrders", "refundOrders"}]_vars

\* C22 witness: an action of the page's context has completed and updated
\* the batch of that context, the other batch never having been loaded.
C22_Witness ==
    /\ last.op = "complete"
    /\ last.updated # {}
    /\ (IF ctx = "users" THEN orders ELSE users).isNull
    /\ ~(IF ctx = "users" THEN users ELSE orders).isNull

\* The pending executions of the action named `type`, of any component.
PendingNamed(type) ==
    {k \in DOMAIN timers : timers[k].kind = "action" /\ timers[k].type = type}

\* C23: the busy flag of an action, as the shown action bar holds it, is
\* true exactly while an execution of that action is pending, and at most
\* one execution of an action name is pending at a time; also after the
\* mode was switched off and on.
C23_BusyWhilePending ==
    \A type \in Types :
        /\ Cardinality(PendingNamed(type)) <= 1
        /\ \A i \in Live(comps) :
               Processing(comps, i, type) <=> PendingNamed(type) # {}

\* C24: every selected entity is an entity of the batch the table shows,
\* so the selected count never exceeds the row count; also after a
\* completing action has replaced the batch.
C24_SelectionWithinBatch ==
    /\ selection \subseteq Range(dataSource)
    /\ IdsOf(selection) \subseteq IdsOf(Range(dataSource))
    /\ Cardinality(selection) <= Len(dataSource)

\* C24 witness: a row that an action has replaced by a new object is
\* selected, as the new object, while another completion is pending.
C24_Witness ==
    /\ \E e \in selection : e.ver > 0 /\ e \in Range(dataSource)
    /\ \E k \in DOMAIN timers : timers[k].kind = "action"

\* C26: whenever the table is in single-row mode the selection is empty:
\* initially, after every task in that mode, and so also when the mode is
\* switched from single-row to multi-select.
C26_SingleRowModeEmpty ==
    /\ ~multiSelect => selection = {}
    /\ (last.op = "toggleMultiSelect" /\ multiSelect) => (last.pre = {} /\ selection = {})

\* C26 witness: the mode was switched on again, with rows to select and
\* after an action had been invoked in the mode before, and the selection
\* is empty.
C26_Witness ==
    /\ last.op = "toggleMultiSelect"
    /\ multiSelect
    /\ dataSource # <<>>
    /\ nInv > 0
    /\ selection = {}

\* The columns each page configures for its table.
ConfiguredColumns ==
    IF ctx = "users"
    THEN <<"name", "email", "department", "status", "lastLogin", "createdAt">>
    ELSE <<"name", "email", "amount", "status", "orderDate", "createdAt">>

\* C27: the displayed columns start with the select column exactly when
\* multi-select mode is on, and the rest is the configured columns in
\* their configured order.
C27_ColumnLayout ==
    /\ (currentDisplayedColumns # <<>> /\ Head(currentDisplayedColumns) = "select")
           <=> multiSelect
    /\ currentDisplayedColumns =
           IF multiSelect THEN <<"select">> \o ConfiguredColumns ELSE ConfiguredColumns

\* C27 witness: the mode is on for the second time and the select column
\* is there once, in front of the configured columns.
C27_Witness ==
    /\ multiSelect
    /\ nInv > 0
    /\ \E i \in Insts : comps[i].state = "dead"
    /\ Len(currentDisplayedColumns) = Len(ConfiguredColumns) + 1
    /\ Head(currentDisplayedColumns) = "select"

\* C28: toggleAllOnPage(true) leaves every row of the batch selected, so
\* isAllSelected() is true afterwards when the batch is not empty;
\* toggleAllOnPage(false) leaves no row selected and the selection count
\* at 0; neither changes the batch, the mode or a busy flag.
C28_ToggleAllOnPage ==
    [][last'.op \in {"selectAll", "deselectAll"} =>
          /\ last'.op = "selectAll" =>
                 /\ \A k \in DOMAIN dataSource' : isSelected(selection', dataSource'[k])
                 /\ dataSource' # <<>> => isAllSelected'
          /\ last'.op = "deselectAll" =>
                 /\ \A k \in DOMAIN dataSource' : ~isSelected(selection', dataSource'[k])
                 /\ Cardinality(selection') = 0
          /\ users' = users /\ orders' = orders
          /\ multiSelect' = multiSelect
          /\ \A i \in Insts : comps'[i].actions = comps[i].actions]_vars

\* C28 witness: the header checkbox has selected all rows of a batch of
\* which one row was selected before, while an action was busy.
C28_Witness ==
    /\ last.op = "selectAll"
    /\ Cardinality(last.pre) = 1
    /\ Cardinality(selection) = NumRows
    /\ isAllSelected
    /\ \E i \in Live(comps) : \E k \in DOMAIN comps[i].actions : comps[i].actions[k].processing

(***************************************************************************)
(* Claims about the loads of the DataService, checked under LoadSpec.      *)
(***************************************************************************)
SignalNamed(which) == IF which = "users" THEN users ELSE orders
LoadedFlag(which) == IF which = "users" THEN usersLoaded ELSE ordersLoaded
PendingLoads(which) ==
    {k \in DOMAIN timers : timers[k].kind = "load" /\ timers[k].type = which}

\* C29: loadUsers and loadOrders load at most once: the first call
\* schedules the one load, every later call does nothing, the batch is null
\* until that load is done, which sets the initial batch, and it is done
\* after the first call; once the batch is set no load is pending, so no
\* call overwrites a batch the bulk operations have updated.
C29_LoadsOnce ==
    /\ [](\A which \in Contexts :
             /\ Cardinality(PendingLoads(which)) <= 1
             /\ ~LoadedFlag(which) => (PendingLoads(which) = {} /\ SignalNamed(which).isNull)
             /\ PendingLoads(which) # {} => SignalNamed(which).isNull
             /\ (LoadedFlag(which) /\ PendingLoads(which) = {}) => ~SignalNamed(which).isNull)
    /\ [][/\ last'.op = "load" =>
                 /\ SignalNamed(last'.type).isNull
                 /\ last'.type = "users" =>
                        (users' = SignalOf(InitialUsers) /\ orders' = orders)
                 /\ last'.type = "orders" =>
                        (orders' = SignalOf(InitialOrders) /\ users' = users)
          /\ (last'.op = "loadCall" /\ last'.busyBefore) =>
                 /\ timers' = timers
                 /\ users' = users /\ orders' = orders
                 /\ usersLoaded' = usersLoaded /\ ordersLoaded' = ordersLoaded
          /\ \A which \in Contexts :
                 ~SignalNamed(which).isNull =>
                     ~(IF which = "users" THEN users' ELSE orders').isNull]_vars
    /\ \A which \in Contexts : []<>(~LoadedFlag(which) \/ ~SignalNamed(which).isNull)

\* C29 witness: a load was called again after a bulk operation had updated
\* the loaded batch, and the batch is the updated one.
C29_Witness ==
    /\ last.op = "loadCall"
    /\ last.busyBefore
    /\ \E k \in DOMAIN SignalNamed(last.type).value : SignalNamed(last.type).value[k].ver > 0
    /\ PendingLoads(last.type) = {}

====
